---- MODULE Spec2Model ----
(***************************************************************************)
(* The resource topologies assembled by the MyStack constructors of the    *)
(* repository (the ECS stack, the ECS stack with the debug instance, the   *)
(* App Runner stack and the ADOT stack with the Lambda function), and the  *)
(* deployment walk over the built topology.                                *)
(*                                                                         *)
(* A construct created with `new X(this, id, props)` is a node; a props    *)
(* expression that reads a member of another construct is an implicit      *)
(* dependency edge (from the reader to the construct read);                *)
(* `a.node.addDependency(b)` is an explicit edge; `connections.allowFrom`  *)
(* and `connections.allowTo` are reachability rules.                       *)
(***************************************************************************)
EXTENDS Naturals, Sequences, FiniteSets, TLC

VARIABLES variant, processEnv, pc, ip, error, nodes, edges, references,
          explicitDependsOn, rules, targets, portMappings, status

vars == <<variant, processEnv, pc, ip, error, nodes, edges, references,
          explicitDependsOn, rules, targets, portMappings, status>>

\* Bound: how many provisioning calls the deployment walk keeps in flight.
MaxInFlight == 2

Variants == {"ecs", "ecsDebug", "appRunner", "adot"}

EnvNames == {"DOCKERHUB_USERNAME", "DOCKERHUB_ACCESS_TOKEN", "HONEYCOMB_API_KEY"}

\* The otlp port mapping of the collector container.
DataPort == 4318

\* The healthcheck port mapping of the collector container.
HealthPort == 13133

(***************************************************************************)
(* The calls a constructor makes, as statements.                           *)
(***************************************************************************)
\* new <Construct>(this, id, props): refs are the constructs whose members
\* props reads, env the configuration names props reads.
NewNode(id, kind, refs, env) ==
  [op |-> "addNode", id |-> id, kind |-> kind, refs |-> refs, env |-> env,
   port |-> 0, health |-> 0, ports |-> {}]

\* A later call that wires further references into an existing construct
\* (addToResourcePolicy, grantRead).
Configure(id, refs, env) ==
  [op |-> "configure", id |-> id, kind |-> "", refs |-> refs, env |-> env,
   port |-> 0, health |-> 0, ports |-> {}]

\* new <Construct>(this, id, props) whose props name the port the service
\* listens on (imageConfiguration.port).
NewNodeWithPort(id, kind, refs, env, ports) ==
  [op |-> "addNode", id |-> id, kind |-> kind, refs |-> refs, env |-> env,
   port |-> 0, health |-> 0, ports |-> ports]

\* taskDefinition.addContainer(name, {image, command, environment / secrets,
\* portMappings}): ports are the containerPort values.
AddContainer(id, refs, env, ports) ==
  [op |-> "configure", id |-> id, kind |-> "", refs |-> refs, env |-> env,
   port |-> 0, health |-> 0, ports |-> ports]

\* listener.addTargets(.., {port, targets: [service.loadBalancerTarget(..)],
\* healthCheck: {port}}).
AddTargets(listener, service, port, health) ==
  [op |-> "addTargets", id |-> listener, kind |-> "", refs |-> {service},
   env |-> {}, port |-> port, health |-> health, ports |-> {}]

\* from.node.addDependency(to)
AddDependency(from, to) ==
  [op |-> "addDependency", id |-> from, kind |-> "", refs |-> {to},
   env |-> {}, port |-> 0, health |-> 0, ports |-> {}]

\* target.connections.allowFrom(source, Port.tcp(port))
AllowFrom(target, source, port) ==
  [op |-> "allow", id |-> source, kind |-> "", refs |-> {target},
   env |-> {}, port |-> port, health |-> 0,
   ports |-> {}]

\* source.connections.allowTo(target, Port.tcp(port))
AllowTo(source, target, port) ==
  [op |-> "allow", id |-> source, kind |-> "", refs |-> {target},
   env |-> {}, port |-> port, health |-> 0,
   ports |-> {}]

(***************************************************************************)
(* src/stacks/my-stack.ts: ECS service behind a load balancer, image       *)
(* pulled through the Docker Hub cache, no debug instance.                 *)
(***************************************************************************)
\* Mutant: HONEYCOMB_API_KEY is read by the constructor but not validated.
Ecs_RequiredEnv_NoHoneycomb == {"DOCKERHUB_USERNAME", "DOCKERHUB_ACCESS_TOKEN"}

\* validateEnv([...]) at module load.
Ecs_RequiredEnv == {"DOCKERHUB_USERNAME", "DOCKERHUB_ACCESS_TOKEN", "HONEYCOMB_API_KEY"}

\* Mutant: the cache rule is given a literal credentialArn, not the secret's.
Ecs_EcrRepo_NoCredentialRef ==
  << NewNode("DhCacheRuleSecret", "Secret", {},
             {"DOCKERHUB_USERNAME", "DOCKERHUB_ACCESS_TOKEN"}),
     NewNode("EcsTaskExecutionRole", "Role", {}, {}),
     NewNode("DhCacheRule", "RegistryCacheRule", {}, {}),
     NewNode("DhCacheRegistryPolicy", "RegistryPolicy",
             {"EcsTaskExecutionRole", "DhCacheRule"}, {}),
     NewNode("EcrOtelcontribRepo", "ImageRepository", {"DhCacheRule"}, {}) >>

\* OTELCONTRIB ECR REPO (DOCKERHUB PULL-THROUGH CACHE)
Ecs_EcrRepo ==
  << NewNode("DhCacheRuleSecret", "Secret", {},
             {"DOCKERHUB_USERNAME", "DOCKERHUB_ACCESS_TOKEN"}),
     NewNode("EcsTaskExecutionRole", "Role", {}, {}),
     NewNode("DhCacheRule", "RegistryCacheRule", {"DhCacheRuleSecret"}, {}),
     NewNode("DhCacheRegistryPolicy", "RegistryPolicy",
             {"EcsTaskExecutionRole", "DhCacheRule"}, {}),
     NewNode("EcrOtelcontribRepo", "ImageRepository", {"DhCacheRule"}, {}) >>

\* vpc, cluster, ConfmapBucket and DeployConfmap
Ecs_ClusterAndConfmap ==
  << NewNode("MyVpc", "Network", {}, {}),
     NewNode("OtelCollectorCluster", "Cluster", {"MyVpc"}, {}),
     NewNode("ConfmapBucket", "ObjectStore", {}, {}),
     NewNode("DeployConfmap", "ObjectDeployment", {"ConfmapBucket"}, {}) >>

\* EcsTaskRole, EcsTaskDefinition and its otel-collector container
Ecs_TaskDefinition ==
  << NewNode("EcsTaskRole", "Role", {"ConfmapBucket"}, {}),
     NewNode("EcsTaskDefinition", "ComputeTask",
             {"EcsTaskExecutionRole", "EcsTaskRole"}, {}),
     AddContainer("EcsTaskDefinition", {"EcrOtelcontribRepo", "ConfmapBucket"},
                  {"HONEYCOMB_API_KEY"}, {4318, 13133}) >>

\* Load balancer and listener
Ecs_Alb ==
  << NewNode("OtelCollectorALB", "LoadBalancer", {"MyVpc"}, {}),
     NewNode("OtlpListener", "Listener", {"OtelCollectorALB"}, {}) >>

\* Mutant: the addDependency call is left out.
Ecs_Service_NoAddDependency ==
  << NewNode("OtelCollectorService", "ComputeService",
             {"OtelCollectorCluster", "EcsTaskDefinition"}, {}) >>

\* Fargate service and its explicit dependency on the registry policy
Ecs_Service ==
  << NewNode("OtelCollectorService", "ComputeService",
             {"OtelCollectorCluster", "EcsTaskDefinition"}, {}),
     AddDependency("OtelCollectorService", "DhCacheRegistryPolicy") >>

\* Mutant: the target group probes a port the container does not expose.
Ecs_Targets_HealthPort8080 ==
  << AddTargets("OtlpListener", "OtelCollectorService", 4318, 8080) >>

\* listener.addTargets("OtlpTarget", ...)
Ecs_Targets ==
  << AddTargets("OtlpListener", "OtelCollectorService", 4318, 13133) >>

\* Mutant: the health-check rule is left out.
Ecs_SecurityGroupRules_OtlpOnly ==
  << AllowFrom("OtelCollectorService", "OtelCollectorALB", 4318) >>

\* Security Group Rules
Ecs_SecurityGroupRules ==
  << AllowFrom("OtelCollectorService", "OtelCollectorALB", 4318),
     AllowFrom("OtelCollectorService", "OtelCollectorALB", 13133) >>

\* MyStack.constructor of src/stacks/my-stack.ts
Ecs_MyStack ==
  Ecs_EcrRepo \o Ecs_ClusterAndConfmap \o Ecs_TaskDefinition \o Ecs_Alb
    \o Ecs_Service \o Ecs_Targets \o Ecs_SecurityGroupRules

(***************************************************************************)
(* The ECS stack with the debug instance enabled and the stack outputs.    *)
(***************************************************************************)
Dbg_RequiredEnv == {"DOCKERHUB_USERNAME", "DOCKERHUB_ACCESS_TOKEN", "HONEYCOMB_API_KEY"}

Dbg_EcrRepo ==
  << NewNode("DhCacheRuleSecret", "Secret", {},
             {"DOCKERHUB_USERNAME", "DOCKERHUB_ACCESS_TOKEN"}),
     NewNode("EcsAccessRole", "Role", {}, {}),
     NewNode("DhCacheRule", "RegistryCacheRule", {"DhCacheRuleSecret"}, {}),
     NewNode("DhCacheRegistryPolicy", "RegistryPolicy",
             {"EcsAccessRole", "DhCacheRule"}, {}),
     NewNode("EcrOtelcontribRepo", "ImageRepository", {"DhCacheRule"}, {}) >>

Dbg_ClusterAndConfig ==
  << NewNode("MyVpc", "Network", {}, {}),
     NewNode("OtelCollectorCluster", "Cluster", {"MyVpc"}, {}),
     NewNode("OtelConfigBucket", "ObjectStore", {}, {}),
     NewNode("DeployOtelConfig", "ObjectDeployment", {"OtelConfigBucket"}, {}) >>

\* taskRole, otelConfigBucket.addToResourcePolicy, taskDefinition, container
Dbg_TaskDefinition ==
  << NewNode("OtelCollectorTaskRole", "Role", {}, {}),
     Configure("OtelConfigBucket", {"OtelCollectorTaskRole"}, {}),
     NewNode("OtelCollectorTaskDef", "ComputeTask", {"OtelCollectorTaskRole"}, {}),
     AddContainer("OtelCollectorTaskDef", {"EcrOtelcontribRepo", "OtelConfigBucket"},
                  {"HONEYCOMB_API_KEY"}, {4318, 13133}) >>

Dbg_Alb ==
  << NewNode("OtelCollectorALB", "LoadBalancer", {"MyVpc"}, {}),
     NewNode("OtlpListener", "Listener", {"OtelCollectorALB"}, {}) >>

Dbg_Service ==
  << NewNode("OtelCollectorService", "ComputeService",
             {"OtelCollectorCluster", "OtelCollectorTaskDef"}, {}) >>

Dbg_Targets ==
  << AddTargets("OtlpListener", "OtelCollectorService", 4318, 13133) >>

Dbg_SecurityGroupRules ==
  << AllowFrom("OtelCollectorService", "OtelCollectorALB", 4318),
     AllowFrom("OtelCollectorService", "OtelCollectorALB", 13133) >>

\* Mutant: the debug security group is allowed to the service itself.
Dbg_DebugInstance_AllowToService ==
  << NewNode("DebugInstanceSg", "SecurityGroup", {"MyVpc"}, {}),
     NewNode("DebugInstanceRole", "Role", {}, {}),
     NewNode("DebugInstance", "Instance",
             {"MyVpc", "DebugInstanceSg", "DebugInstanceRole"}, {}),
     AllowTo("DebugInstanceSg", "OtelCollectorService", 4318) >>

\* Debug Instance: security group, role, instance, and its one rule
Dbg_DebugInstance ==
  << NewNode("DebugInstanceSg", "SecurityGroup", {"MyVpc"}, {}),
     NewNode("DebugInstanceRole", "Role", {}, {}),
     NewNode("DebugInstance", "Instance",
             {"MyVpc", "DebugInstanceSg", "DebugInstanceRole"}, {}),
     AllowTo("DebugInstanceSg", "OtelCollectorALB", 4318) >>

\* service.node.addDependency(dhCacheRegistryPolicy), then the CfnOutputs
Dbg_DependencyAndOutputs ==
  << AddDependency("OtelCollectorService", "DhCacheRegistryPolicy"),
     NewNode("OtelCollectorServiceUrl", "Output", {"OtelCollectorALB"}, {}),
     NewNode("DebugInstanceId", "Output", {"DebugInstance"}, {}) >>

Dbg_MyStack ==
  Dbg_EcrRepo \o Dbg_ClusterAndConfig \o Dbg_TaskDefinition \o Dbg_Alb
    \o Dbg_Service \o Dbg_Targets \o Dbg_SecurityGroupRules
    \o Dbg_DebugInstance \o Dbg_DependencyAndOutputs

(***************************************************************************)
(* The App Runner stack: the pull-through cache chain and one service.     *)
(***************************************************************************)
App_RequiredEnv == {"DOCKERHUB_USERNAME", "DOCKERHUB_ACCESS_TOKEN"}

App_EcrRepo ==
  << NewNode("DhCacheRuleSecret", "Secret", {},
             {"DOCKERHUB_USERNAME", "DOCKERHUB_ACCESS_TOKEN"}),
     NewNode("ApprunnerAccessRole", "Role", {}, {}),
     NewNode("DhCacheRule", "RegistryCacheRule", {"DhCacheRuleSecret"}, {}),
     NewNode("DhCacheRegistryPolicy", "RegistryPolicy",
             {"ApprunnerAccessRole", "DhCacheRule"}, {}),
     NewNode("EcrOtelcontribRepo", "ImageRepository", {"DhCacheRule"}, {}) >>

App_Service ==
  << NewNodeWithPort("OtelcontribService", "ComputeService",
                     {"ApprunnerAccessRole", "EcrOtelcontribRepo"}, {}, {80}),
     AddDependency("OtelcontribService", "DhCacheRegistryPolicy") >>

App_MyStack == App_EcrRepo \o App_Service

(***************************************************************************)
(* The ADOT stack: image from the public registry, Honeycomb key in a      *)
(* secret, and the instrumented Lambda function.                           *)
(***************************************************************************)
Adot_RequiredEnv == {"HONEYCOMB_API_KEY"}

\* SECRETS MANAGER, VPC, ALB
Adot_SecretVpcAlb ==
  << NewNode("HoneycombApiKeySecret", "Secret", {}, {"HONEYCOMB_API_KEY"}),
     NewNode("DefaultVpc", "Network", {}, {}),
     NewNode("AdotCollectorAlb", "LoadBalancer", {"DefaultVpc"}, {}),
     NewNode("AdotCollectorAlbOtlpListener", "Listener", {"AdotCollectorAlb"}, {}) >>

\* S3
Adot_Confmap ==
  << NewNode("ConfmapBucket", "ObjectStore", {}, {}),
     NewNode("DeployConfmap", "ObjectDeployment", {"ConfmapBucket"}, {}) >>

\* IAM
Adot_Iam ==
  << NewNode("EcsTaskExecutionRole", "Role", {}, {}),
     Configure("EcsTaskExecutionRole", {"HoneycombApiKeySecret"}, {}),
     NewNode("EcsTaskRole", "Role", {"ConfmapBucket"}, {}) >>

\* ECS
Adot_Ecs ==
  << NewNode("EcsCluster", "Cluster", {"DefaultVpc"}, {}),
     NewNode("FargateTaskDefinition", "ComputeTask",
             {"EcsTaskExecutionRole", "EcsTaskRole"}, {}),
     AddContainer("FargateTaskDefinition", {"ConfmapBucket", "HoneycombApiKeySecret"},
                  {}, {4318, 13133}),
     NewNode("AdotCollectorService", "ComputeService",
             {"EcsCluster", "FargateTaskDefinition"}, {}) >>

\* ALB TARGET GROUP
Adot_Targets ==
  << AddTargets("AdotCollectorAlbOtlpListener", "AdotCollectorService", 4318, 13133) >>

Adot_SecurityGroupRules ==
  << AllowFrom("AdotCollectorService", "AdotCollectorAlb", 4318),
     AllowFrom("AdotCollectorService", "AdotCollectorAlb", 13133) >>

\* LAMBDA
Adot_Lambda ==
  << NewNode("AdotNodeLayer", "Layer", {}, {}),
     NewNode("AdotHelloLambda", "Function", {"AdotNodeLayer", "AdotCollectorAlb"}, {}) >>

Adot_MyStack ==
  Adot_SecretVpcAlb \o Adot_Confmap \o Adot_Iam \o Adot_Ecs \o Adot_Targets
    \o Adot_SecurityGroupRules \o Adot_Lambda

\* The constructor and the validated names of each stack.
Program(v) ==
  CASE v = "ecs" -> Ecs_MyStack
    [] v = "ecsDebug" -> Dbg_MyStack
    [] v = "appRunner" -> App_MyStack
    [] v = "adot" -> Adot_MyStack

\* Where the service's image comes from: ContainerImage.fromEcrRepository /
\* Source.fromEcr of the cache repository, or ContainerImage.fromRegistry.
RegistrySource(v) ==
  IF v = "adot" THEN "public-registry" ELSE "pull-through-cache"

RequiredEnv(v) ==
  CASE v = "ecs" -> Ecs_RequiredEnv
    [] v = "ecsDebug" -> Dbg_RequiredEnv
    [] v = "appRunner" -> App_RequiredEnv
    [] v = "adot" -> Adot_RequiredEnv

(***************************************************************************)
(* State of one run: the module is loaded (validateEnv), the constructor   *)
(* runs statement by statement, the built topology is deployed.            *)
(***************************************************************************)
\* utils/validate-env: every required name absent from the environment is
\* collected; the call fails when that list is not empty.
validateEnv(required, present) ==
  [ok |-> required \subseteq present, missing |-> required \ present]

NoError == [name |-> "none", missing |-> {}]

NodeIds == {nodes[i].id : i \in 1..Len(nodes)}

IdsOfKind(k) == {nodes[i].id : i \in {j \in 1..Len(nodes) : nodes[j].kind = k}}

\* The statement the constructor is about to execute.
Stmt == Program(variant)[ip]

Init ==
  /\ variant \in Variants
  /\ processEnv \in SUBSET EnvNames
  /\ pc = "load"
  /\ ip = 1
  /\ error = NoError
  /\ nodes = <<>>
  /\ edges = {}
  /\ references = {}
  /\ explicitDependsOn = {}
  /\ rules = {}
  /\ targets = {}
  /\ portMappings = {}
  /\ status = <<>>

\* const env = validateEnv([...]) at module load, before `new MyStack(...)`.
ModuleLoad ==
  /\ pc = "load"
  /\ LET r == validateEnv(RequiredEnv(variant), processEnv)
     IN IF r.ok
          THEN /\ pc' = "construct"
               /\ error' = error
          ELSE /\ pc' = "aborted"
               /\ error' = [name |-> "ConfigurationError", missing |-> r.missing]
  /\ UNCHANGED <<portMappings, references, variant, processEnv, ip, nodes, edges, explicitDependsOn,
                 rules, targets, status>>

Running == pc = "construct" /\ ip <= Len(Program(variant))

\* new X(this, id, props): the node, and an edge to every construct read.
AddNodeStep ==
  /\ Running
  /\ Stmt.op = "addNode"
  /\ nodes' = Append(nodes, [id |-> Stmt.id, kind |-> Stmt.kind])
  /\ edges' = edges \cup {<<Stmt.id, r>> : r \in Stmt.refs}
  /\ references' = references \cup {<<Stmt.id, r>> : r \in Stmt.refs}
  /\ status' = [n \in NodeIds \cup {Stmt.id} |-> "pending"]
  /\ portMappings' = portMappings \cup
       {[node |-> Stmt.id, port |-> p] : p \in Stmt.ports}
  /\ ip' = ip + 1
  /\ UNCHANGED <<variant, processEnv, pc, error, explicitDependsOn, rules, targets>>

\* addContainer / addToResourcePolicy / grantRead: further references.
ConfigureStep ==
  /\ Running
  /\ Stmt.op = "configure"
  /\ edges' = edges \cup {<<Stmt.id, r>> : r \in Stmt.refs}
  /\ references' = references \cup {<<Stmt.id, r>> : r \in Stmt.refs}
  /\ portMappings' = portMappings \cup
       {[node |-> Stmt.id, port |-> p] : p \in Stmt.ports}
  /\ ip' = ip + 1
  /\ UNCHANGED <<variant, processEnv, pc, error, nodes, explicitDependsOn,
                 rules, targets, status>>

\* listener.addTargets: the listener forwards to the service's port and
\* probes its health-check port.
AddTargetsStep ==
  /\ Running
  /\ Stmt.op = "addTargets"
  /\ edges' = edges \cup {<<Stmt.id, r>> : r \in Stmt.refs}
  /\ references' = references \cup {<<Stmt.id, r>> : r \in Stmt.refs}
  /\ targets' = targets \cup
       {[listener |-> Stmt.id, service |-> r, port |-> Stmt.port,
         health |-> Stmt.health] : r \in Stmt.refs}
  /\ ip' = ip + 1
  /\ UNCHANGED <<portMappings, variant, processEnv, pc, error, nodes, explicitDependsOn,
                 rules, status>>

\* a.node.addDependency(b)
AddDependencyStep ==
  /\ Running
  /\ Stmt.op = "addDependency"
  /\ edges' = edges \cup {<<Stmt.id, r>> : r \in Stmt.refs}
  /\ explicitDependsOn' = explicitDependsOn \cup {<<Stmt.id, r>> : r \in Stmt.refs}
  /\ ip' = ip + 1
  /\ UNCHANGED <<portMappings, references, variant, processEnv, pc, error, nodes, rules, targets, status>>

\* connections.allowFrom / allowTo
AllowStep ==
  /\ Running
  /\ Stmt.op = "allow"
  /\ rules' = rules \cup
       {[sourceNodeId |-> Stmt.id, targetNodeId |-> r, port |-> Stmt.port,
         protocol |-> "tcp"] : r \in Stmt.refs}
  /\ ip' = ip + 1
  /\ UNCHANGED <<portMappings, references, variant, processEnv, pc, error, nodes, edges,
                 explicitDependsOn, targets, status>>

\* The constructor returns: the topology is built.
Return ==
  /\ pc = "construct"
  /\ ip > Len(Program(variant))
  /\ pc' = "built"
  /\ UNCHANGED <<portMappings, references, variant, processEnv, ip, error, nodes, edges,
                 explicitDependsOn, rules, targets, status>>

(***************************************************************************)
(* Deployment of the built topology: a node's provisioning call starts     *)
(* once every node it has an edge to is done; the first failure stops      *)
(* further starts.                                                         *)
(***************************************************************************)
DependsOn(n) == {e[2] : e \in {d \in edges : d[1] = n}}

InFlight == {n \in NodeIds : status[n] = "running"}

Failed == {n \in NodeIds : status[n] = "failed"}

Start(n) ==
  /\ pc = "built"
  /\ status[n] = "pending"
  /\ Failed = {}
  /\ Cardinality(InFlight) < MaxInFlight
  /\ \A d \in DependsOn(n) : status[d] = "done"
  /\ status' = [status EXCEPT ![n] = "running"]
  /\ UNCHANGED <<portMappings, references, variant, processEnv, pc, ip, error, nodes, edges,
                 explicitDependsOn, rules, targets>>

Complete(n) ==
  /\ pc = "built"
  /\ status[n] = "running"
  /\ status' = [status EXCEPT ![n] = "done"]
  /\ UNCHANGED <<portMappings, references, variant, processEnv, pc, ip, error, nodes, edges,
                 explicitDependsOn, rules, targets>>

Fail(n) ==
  /\ pc = "built"
  /\ status[n] = "running"
  /\ status' = [status EXCEPT ![n] = "failed"]
  /\ UNCHANGED <<portMappings, references, variant, processEnv, pc, ip, error, nodes, edges,
                 explicitDependsOn, rules, targets>>

Synthesize == \E n \in NodeIds : Start(n) \/ Complete(n) \/ Fail(n)

Next ==
  \/ ModuleLoad
  \/ AddNodeStep
  \/ ConfigureStep
  \/ AddTargetsStep
  \/ AddDependencyStep
  \/ AllowStep
  \/ Return
  \/ Synthesize

Spec == Init /\ [][Next]_vars

(***************************************************************************)
(* Properties of the built topologies and of their deployment.             *)
(***************************************************************************)
Built == pc = "built"

Started(n) == status[n] \in {"running", "done", "failed"}

Done(n) == status[n] = "done"

\* b has a dependency edge to a, and b's call never starts before a is done.
EdgeAndOrder(b, a) == <<b, a>> \in edges /\ (Started(b) => Done(a))

\* Every node of kind kb depends in that way on every node of kind ka.
KindAfter(kb, ka) ==
  \A b \in IdsOfKind(kb) : \A a \in IdsOfKind(ka) : EdgeAndOrder(b, a)

RECURSIVE ReachSet(_)
ReachSet(S) ==
  LET next == S \cup {e[2] : e \in {d \in edges : d[1] \in S}}
  IN IF next = S THEN S ELSE ReachSet(next)

\* n depends on m through one or more edges.
Reaches(n, m) == m \in ReachSet(DependsOn(n))

\* The rule set of the built topology.
resolve == rules

\* The rules a constructor's allowFrom / allowTo statements declare.
RulesDeclaredBy(prog) ==
  UNION {{[sourceNodeId |-> prog[i].id, targetNodeId |-> r,
           port |-> prog[i].port, protocol |-> "tcp"] : r \in prog[i].refs}
         : i \in {j \in 1..Len(prog) : prog[j].op = "allow"}}

\* The configuration names the constructor reads from `env`.
EnvRead(v) == UNION {Program(v)[i].env : i \in 1..Len(Program(v))}

\* The debug instance and its security group.
DebugNodes == IdsOfKind("Instance") \cup IdsOfKind("SecurityGroup")

RegistryNodes ==
  IdsOfKind("RegistryCacheRule") \cup IdsOfKind("RegistryPolicy")
    \cup IdsOfKind("ImageRepository")

C4_ServiceAfterRegistryPolicy ==
  Built =>
    IF RegistrySource(variant) = "pull-through-cache"
      THEN /\ IdsOfKind("ComputeService") # {}
           /\ IdsOfKind("RegistryPolicy") # {}
           /\ \A s \in IdsOfKind("ComputeService") :
                \A p \in IdsOfKind("RegistryPolicy") :
                  /\ <<s, p>> \in explicitDependsOn
                  /\ <<s, p>> \notin references
                  /\ EdgeAndOrder(s, p)
      ELSE /\ RegistryNodes = {}
           /\ explicitDependsOn = {}

\* The service's call is in flight, the registry policy is done.
C4_Witness ==
  /\ Built
  /\ RegistrySource(variant) = "pull-through-cache"
  /\ \E s \in IdsOfKind("ComputeService") : status[s] = "running"
  /\ \E p \in IdsOfKind("RegistryPolicy") : Done(p)

\* C5: in every built topology the ObjectDeployment depends on the
\* ObjectStore and the ComputeService on the ObjectDeployment, so the service
\* never starts before the deployment is done, nor the deployment before the
\* store.
C5_ConfigDeployedBeforeService ==
  Built =>
    /\ KindAfter("ObjectDeployment", "ObjectStore")
    /\ \A s \in IdsOfKind("ComputeService") :
         \A d \in IdsOfKind("ObjectDeployment") :
           Reaches(s, d) /\ (Started(s) => Done(d))

\* Exactly two rules, LoadBalancer to ComputeService, one on the data port
\* and one on the health-check port.
TwoLoadBalancerRules ==
  /\ Cardinality(resolve) = 2
  /\ DataPort # HealthPort
  /\ {r.port : r \in resolve} = {DataPort, HealthPort}
  /\ \A r \in resolve :
       /\ r.sourceNodeId \in IdsOfKind("LoadBalancer")
       /\ r.targetNodeId \in IdsOfKind("ComputeService")

\* C6 as stated: every topology built without a debug node has exactly the
\* two LoadBalancer-to-ComputeService rules.
C6_TwoRulesAsStated == (Built /\ DebugNodes = {}) => TwoLoadBalancerRules

\* C6 amended: every topology built without a debug node and with a listener
\* targeting the ComputeService has exactly the two
\* LoadBalancer-to-ComputeService rules (data port, health-check port), and
\* no other rule.
C6_TwoRules ==
  (Built /\ DebugNodes = {} /\ targets # {}) => TwoLoadBalancerRules

\* A built stack without debug node whose listener targets the service and
\* whose rules include the health-check port.
C6_Witness ==
  /\ Built
  /\ DebugNodes = {}
  /\ targets # {}
  /\ \E r \in resolve : r.port = HealthPort

\* C7: with the debug node the rule set is that of the stack without it plus
\* one rule, debug node to LoadBalancer on the data port; no built topology
\* has a rule from a debug node to the ComputeService or on the health-check
\* port.
C7_DebugRule ==
  Built =>
    LET dbg == {r \in resolve : r.sourceNodeId \in DebugNodes}
    IN /\ DebugNodes # {} =>
            /\ Cardinality(dbg) = 1
            /\ resolve \ dbg = RulesDeclaredBy(Ecs_MyStack)
            /\ Cardinality(resolve) = Cardinality(RulesDeclaredBy(Ecs_MyStack)) + 1
       /\ \A r \in dbg :
            /\ r.targetNodeId \in IdsOfKind("LoadBalancer")
            /\ r.targetNodeId \notin IdsOfKind("ComputeService")
            /\ r.port = DataPort
            /\ r.port # HealthPort
       /\ \A r \in resolve :
            r.targetNodeId \in IdsOfKind("ComputeService") =>
              r.sourceNodeId \in IdsOfKind("LoadBalancer")

\* The stack with the debug instance is built and holds the debug rule.
C7_Witness ==
  /\ Built
  /\ DebugNodes # {}
  /\ \E r \in resolve : r.sourceNodeId \in DebugNodes

\* C8: when a configuration name the stack needs is missing, loading aborts
\* with a ConfigurationError that lists every missing name, and no node, edge
\* or rule has been created.
C8_MissingConfigurationAborts ==
  (pc # "load" /\ ~(EnvRead(variant) \subseteq processEnv)) =>
    /\ pc = "aborted"
    /\ error.name = "ConfigurationError"
    /\ error.missing = EnvRead(variant) \ processEnv
    /\ nodes = <<>>
    /\ edges = {}
    /\ rules = {}
    /\ ip = 1

\* Aborted with two or more names reported at once.
C8_Witness ==
  /\ pc = "aborted"
  /\ error.name = "ConfigurationError"
  /\ Cardinality(error.missing) >= 2
  /\ nodes = <<>>

\* The ports on which listeners send traffic to service s: the target's
\* port and the health-check port.
TargetedPorts(s) ==
  UNION {{t.port, t.health} : t \in {x \in targets : x.service = s}}

\* The ports service s exposes: its own and those of the containers of the
\* task definition it runs.
ExposedPorts(s) ==
  {m.port : m \in {x \in portMappings :
                     x.node = s \/ <<s, x.node>> \in references}}

\* The ports of the LoadBalancer-to-s rules.
RulePorts(s) ==
  {r.port : r \in {x \in resolve : /\ x.targetNodeId = s
                                    /\ x.sourceNodeId \in IdsOfKind("LoadBalancer")}}

PortsAgree(s) ==
  /\ TargetedPorts(s) = {DataPort, HealthPort}
  /\ ExposedPorts(s) = {DataPort, HealthPort}
  /\ RulePorts(s) = {DataPort, HealthPort}

\* C17 as stated: in every built topology the ports targeted by the load
\* balancer, the ports the service exposes and the ports of the
\* LoadBalancer-to-ComputeService rules are the same set {4318, 13133}.
C17_PortsAgreeAsStated ==
  Built => \A s \in IdsOfKind("ComputeService") : PortsAgree(s)

\* C17 amended: in every built topology in which a listener targets the
\* ComputeService, the ports targeted by the load balancer, the ports the
\* service exposes and the ports of the LoadBalancer-to-ComputeService rules
\* are the same set {4318, 13133}.
C17_PortsAgree ==
  Built =>
    \A s \in IdsOfKind("ComputeService") :
      (\E t \in targets : t.service = s) => PortsAgree(s)

\* A built stack whose service is a listener target with both ports ruled.
C17_Witness ==
  /\ Built
  /\ \E s \in IdsOfKind("ComputeService") :
       /\ \E t \in targets : t.service = s
       /\ Cardinality(RulePorts(s)) = 2
       /\ Cardinality(ExposedPorts(s)) = 2

====
